---- MODULE Spec2Model ----
(***************************************************************************)
(* State-machine model of the usdt probe-record codec                      *)
(* (usdt-impl/src/record.rs) and of the dtrace_provider binding generator  *)
(* (src/lib.rs).                                                           *)
(*                                                                         *)
(* Representation.  A byte is a number 0..255, a byte slice and a string   *)
(* are sequences of bytes.  A u64 is a tuple of four 16-bit limbs and a    *)
(* u32 a tuple of two, least significant limb first, so that every 64-bit  *)
(* value is exact.                                                         *)
(***************************************************************************)
EXTENDS Integers, Sequences, FiniteSets, TLC

VARIABLES input, data, providers, status, dl, object, def, stubs

vars == <<input, data, providers, status, dl, object, def, stubs>>

\* ------------------------------------------------------------------ bounds

\* Most records in one decoded slice.
MaxRecs == 3

\* Most records before a malformed end.
MaxBadRecs == 2

\* Most records in a slice of records with argument descriptions.
MaxArgRecs == 3

\* Most argument descriptions of a record with long strings.
MaxNameArgs == 1

\* Most section headers, and most symbols, of an object file.
MaxHdrs == 2
MaxSyms == 3

\* Most probes of a provider definition, and most arguments of a probe.
MaxProbes == 2
MaxArgs == 2

\* ------------------------------------------------------- program constants

PROBE_REC_VERSION == 1
MAX_PROVIDER_NAME_LEN == 64
MAX_PROBE_NAME_LEN == 64
MAX_FUNC_NAME_LEN == 128
MAX_ARG_TYPE_LEN == 128

\* ---------------------------------------------------------------- integers

\* A u64 is four 16-bit limbs.
Limb == 2 ^ 16

Min(a, b) == IF a <= b THEN a ELSE b

\* The u64 of a number below 2^31.
U64(n) == <<n % Limb, n \div Limb, 0, 0>>

\* The u32 of a number below 2^31.
U32(n) == <<n % Limb, n \div Limb>>

\* a < b on u64.
U64Lt(a, b) == \E i \in 1..4 : a[i] < b[i] /\ \A j \in (i + 1)..4 : a[j] = b[j]

\* address >= probe.address
U64Ge(a, b) == ~U64Lt(a, b)

\* a - b on u64 (wrapping; the code subtracts only after checking a >= b).
U64Sub(a, b) ==
    LET d1 == a[1] - b[1]
        c1 == IF d1 < 0 THEN 1 ELSE 0
        d2 == a[2] - b[2] - c1
        c2 == IF d2 < 0 THEN 1 ELSE 0
        d3 == a[3] - b[3] - c2
        c3 == IF d3 < 0 THEN 1 ELSE 0
        d4 == a[4] - b[4] - c3
    IN  <<d1 % Limb, d2 % Limb, d3 % Limb, d4 % Limb>>

\* `x as u32`: the low 32 bits of a u64.
AsU32(x) == <<x[1], x[2]>>

\* ------------------------------------------------------------------- bytes

Repeat(b, n) == [i \in 1..n |-> b]

\* The rest of a slice from 0-based index k: &s[k..].
Drop(s, k) == SubSeq(s, k + 1, Len(s))

\* &s[..k]
Take(s, k) == SubSeq(s, 1, k)

\* write_u16 / write_u32 / write_u64::<NativeEndian> on a little-endian host.
LimbBytes(w) == <<w % 256, w \div 256>>

WriteU32(w) == LimbBytes(w[1]) \o LimbBytes(w[2])

WriteU64(w) == LimbBytes(w[1]) \o LimbBytes(w[2]) \o LimbBytes(w[3]) \o LimbBytes(w[4])

\* read_u16 / read_u32 / read_u64::<NativeEndian> of the first bytes of s.
ReadLimb(s, k) == s[k + 1] + 256 * s[k + 2]

ReadU32(s) == <<ReadLimb(s, 0), ReadLimb(s, 2)>>

ReadU64(s) == <<ReadLimb(s, 0), ReadLimb(s, 2), ReadLimb(s, 4), ReadLimb(s, 6)>>

\* `len as usize > n` for a slice length n (every slice here is shorter
\* than 2^16 bytes).
LenExceeds(len, n) == len[2] > 0 \/ len[1] > n

\* --------------------------------------------------------------- UTF-8, str

IsCont(b) == b >= 128 /\ b <= 191

At(s, i) == IF i <= Len(s) THEN s[i] ELSE 0

\* The byte length of the well-formed UTF-8 scalar that starts at s[i], or 0
\* when none does (std::str::from_utf8's acceptance rule).
Utf8CharLen(s, i) ==
    LET b0 == s[i]
        b1 == At(s, i + 1)
        b2 == At(s, i + 2)
        b3 == At(s, i + 3)
        have(n) == i + n - 1 <= Len(s)
    IN  CASE b0 < 128 -> 1
          [] b0 >= 194 /\ b0 <= 223 ->
                IF have(2) /\ IsCont(b1) THEN 2 ELSE 0
          [] b0 = 224 ->
                IF have(3) /\ b1 >= 160 /\ b1 <= 191 /\ IsCont(b2) THEN 3 ELSE 0
          [] (b0 >= 225 /\ b0 <= 236) \/ b0 = 238 \/ b0 = 239 ->
                IF have(3) /\ IsCont(b1) /\ IsCont(b2) THEN 3 ELSE 0
          [] b0 = 237 ->
                IF have(3) /\ b1 >= 128 /\ b1 <= 159 /\ IsCont(b2) THEN 3 ELSE 0
          [] b0 = 240 ->
                IF have(4) /\ b1 >= 144 /\ b1 <= 191 /\ IsCont(b2) /\ IsCont(b3) THEN 4 ELSE 0
          [] b0 >= 241 /\ b0 <= 243 ->
                IF have(4) /\ IsCont(b1) /\ IsCont(b2) /\ IsCont(b3) THEN 4 ELSE 0
          [] b0 = 244 ->
                IF have(4) /\ b1 >= 128 /\ b1 <= 143 /\ IsCont(b2) /\ IsCont(b3) THEN 4 ELSE 0
          [] OTHER -> 0

\* std::str::from_utf8(s).is_ok(): the scan from the first byte meets a
\* well-formed scalar at every step.  That is: a well-formed scalar starts
\* at every byte that is not a continuation byte, and every continuation
\* byte lies inside the scalar that starts one to three bytes before it.
ValidUtf8(s) ==
    \A i \in 1..Len(s) :
        IF IsCont(s[i])
        THEN \E k \in 1..3 : i - k >= 1 /\ Utf8CharLen(s, i - k) > k
        ELSE Utf8CharLen(s, i) > 0

\* str::is_char_boundary(k) for a 0-based byte index k <= len.
IsCharBoundary(s, k) == k = 0 \/ k = Len(s) \/ ~IsCont(s[k + 1])

\* CStr::to_string_lossy: valid UTF-8 is returned as it is; otherwise the
\* well-formed scalars are kept and every other byte becomes U+FFFD
\* (EF BF BD).
RECURSIVE LossyFrom(_, _)
LossyFrom(s, i) ==
    IF i > Len(s) THEN <<>>
    ELSE IF Utf8CharLen(s, i) = 0 THEN <<239, 191, 189>> \o LossyFrom(s, i + 1)
    ELSE SubSeq(s, i, i + Utf8CharLen(s, i) - 1) \o LossyFrom(s, i + Utf8CharLen(s, i))

ToStringLossy(s) == IF ValidUtf8(s) THEN s ELSE LossyFrom(s, 1)

\* format!("{:x}", address): lowercase hex digits, no leading zeros.
HexDigit(n) == IF n < 10 THEN 48 + n ELSE 87 + n

Nibbles(x) == [k \in 1..16 |-> (x[4 - ((k - 1) \div 4)] \div (16 ^ (3 - ((k - 1) % 4)))) % 16]

RECURSIVE StripZeros(_)
StripZeros(ds) == IF Len(ds) > 1 /\ ds[1] = 0 THEN StripZeros(Tail(ds)) ELSE ds

LowerHex(x) == LET ds == StripZeros(Nibbles(x)) IN [k \in 1..Len(ds) |-> HexDigit(ds[k])]

\* format!("?{:#x}", address)
Placeholder(address) == <<63, 48, 120>> \o LowerHex(address)

\* ------------------------------------------------------ record.rs: strings

\* 1-based position of the first zero byte of s, or 0 when there is none.
ZeroPos(s) ==
    IF \E i \in 1..Len(s) : s[i] = 0
    THEN CHOOSE i \in 1..Len(s) : s[i] = 0 /\ \A j \in 1..(i - 1) : s[j] # 0
    ELSE 0

\* read_cstr panics: no terminator (expect), or bytes that are not UTF-8
\* (unwrap).
CstrPanics(s) == ZeroPos(s) = 0 \/ ~ValidUtf8(Take(s, ZeroPos(s) - 1))

\* The string read_cstr returns, and the cursor it leaves.
CstrStr(s) == Take(s, ZeroPos(s) - 1)

CstrRest(s) == Drop(s, ZeroPos(s))

\* limit_string_length: limit = s.len().min(limit - 1); s[..limit] panics
\* when that index is not a char boundary.
LimitIndex(s, limit) == Min(Len(s), limit - 1)

LimitPanics(s, limit) == ~IsCharBoundary(s, LimitIndex(s, limit))

limit_string_length(s, limit) == Take(s, LimitIndex(s, limit))

\* The loop `for _ in 0..n_args` of process_rec: reads and truncates n
\* argument type descriptions from cursor cur.
RECURSIVE ReadArgs(_, _)
ReadArgs(cur, n) ==
    IF n = 0 THEN [panic |-> FALSE, args |-> <<>>]
    ELSE IF CstrPanics(cur) \/ LimitPanics(CstrStr(cur), MAX_ARG_TYPE_LEN)
         THEN [panic |-> TRUE, args |-> <<>>]
    ELSE LET rest == ReadArgs(CstrRest(cur), n - 1)
         IN  [panic |-> rest.panic,
              args |-> <<limit_string_length(CstrStr(cur), MAX_ARG_TYPE_LEN)>> \o rest.args]

\* ------------------------------------------------- record.rs: addr_to_info

\* What dladdr answers for an address: ret = 0 (no object holds it), or
\* ret # 0 with dli_sname either a C string or NULL (object found, no symbol).
DlMiss == [ret |-> 0, null |-> FALSE, sname |-> <<>>]

DlSym(s) == [ret |-> 1, null |-> FALSE, sname |-> s]

DlNoSym == [ret |-> 1, null |-> TRUE, sname |-> <<>>]

DlAddr(dlt, addr) == IF addr \in DOMAIN dlt THEN dlt[addr] ELSE DlMiss

\* CStr::from_ptr(NULL) is undefined behaviour: the process dies, or some
\* bytes are read as the name.
UbOutcomes ==
    { [crash |-> TRUE, s |-> <<>>],
      [crash |-> FALSE, s |-> <<>>],
      [crash |-> FALSE, s |-> <<255, 109>>] }

\* addr_to_info(addr).0, with ub the outcome taken if the call is undefined.
AddrToInfo(dlt, addr, ub) ==
    LET info == DlAddr(dlt, addr)
    IN  IF info.ret = 0 THEN [crash |-> FALSE, some |-> FALSE, s |-> <<>>]
        ELSE IF info.null THEN [crash |-> ub.crash, some |-> TRUE, s |-> ToStringLossy(ub.s)]
        ELSE [crash |-> FALSE, some |-> TRUE, s |-> ToStringLossy(info.sname)]

\* -------------------------------------------------- record.rs: process_rec

EmptyMap == [k \in {} |-> k]

\* Mutant of OrInsert: BTreeMap::insert, which replaces an existing entry.
OrInsertOverwrites(map, k, v) == (k :> v) @@ map

\* BTreeMap::entry(k).or_insert(v): the map with k bound to v unless k is
\* already bound.
OrInsert(map, k, v) == IF k \in DOMAIN map THEN map ELSE (k :> v) @@ map

\* Mutant of IsFutureVersion: the comparison is off by one.
IsFutureVersionOffByOne(version) == version > PROBE_REC_VERSION + 1

\* `version > PROBE_REC_VERSION`: the record is from a future format.
IsFutureVersion(version) == version > PROBE_REC_VERSION

\* Mutant of PushOffset: the flags are not looked at.
PushOffsetIgnoresFlags(probe, flags, off) == [probe EXCEPT !.offsets = Append(@, off)]

\* The two push branches on flags.
PushOffset(probe, flags, off) ==
    IF flags = 0
    THEN [probe EXCEPT !.offsets = Append(@, off)]
    ELSE [probe EXCEPT !.enabled_offsets = Append(@, off)]

\* Mutant of SetArguments: the list is only set while it is empty.
SetArgumentsOnce(probe, args) ==
    IF probe.arguments = <<>> THEN [probe EXCEPT !.arguments = args] ELSE probe

\* probe.arguments = args
SetArguments(probe, args) == [probe EXCEPT !.arguments = args]

\* assert!(address >= probe.address)
AddressOrdered(address, anchor) == U64Ge(address, anchor)

Outcome(st, provs) == [status |-> st, providers |-> provs]

\* The tail of process_rec, from the or_insert of the provider on; the
\* strings are already truncated.
StoreRec(provs, provname, probename, funcname, address, flags, args) ==
    LET withProv == OrInsert(provs, provname, [name |-> provname, probes |-> EmptyMap])
        fresh == [name |-> probename, function |-> funcname, address |-> address,
                  offsets |-> <<>>, enabled_offsets |-> <<>>, arguments |-> <<>>]
        probes == OrInsert(withProv[provname].probes, probename, fresh)
        probe == SetArguments(probes[probename], args)
    IN  IF ~AddressOrdered(address, probe.address) THEN Outcome("panic", provs)
        ELSE LET pushed == PushOffset(probe, flags, AsU32(U64Sub(address, probe.address)))
             IN  Outcome("ok",
                    [withProv EXCEPT ![provname].probes = (probename :> pushed) @@ probes])

\* process_rec from the read of n_args on; d0 is the cursor after the length.
DecodeRec(provs, d0, dlt, ub) ==
    IF Len(d0) < 2 THEN Outcome("err", provs)
    ELSE IF Len(d0) < 4 THEN Outcome("err", provs)
    ELSE IF Len(d0) < 12 THEN Outcome("err", provs)
    ELSE LET n_args == d0[2]
             flags == ReadLimb(d0, 2)
             address == ReadU64(Drop(d0, 4))
             d1 == Drop(d0, 12)
         IN  IF CstrPanics(d1) THEN Outcome("panic", provs)
             ELSE IF CstrPanics(CstrRest(d1)) THEN Outcome("panic", provs)
             ELSE LET provname == CstrStr(d1)
                      probename == CstrStr(CstrRest(d1))
                      a == ReadArgs(CstrRest(CstrRest(d1)), n_args)
                      info == AddrToInfo(dlt, address, ub)
                      funcname == IF info.some
                                  THEN limit_string_length(info.s, MAX_FUNC_NAME_LEN)
                                  ELSE Placeholder(address)
                  IN  IF a.panic THEN Outcome("panic", provs)
                      ELSE IF info.crash THEN Outcome("abort", provs)
                      ELSE IF info.some /\ LimitPanics(info.s, MAX_FUNC_NAME_LEN)
                           THEN Outcome("panic", provs)
                      ELSE IF LimitPanics(provname, MAX_PROVIDER_NAME_LEN)
                           THEN Outcome("panic", provs)
                      ELSE IF LimitPanics(probename, MAX_PROBE_NAME_LEN)
                           THEN Outcome("panic", provs)
                      ELSE StoreRec(provs,
                                    limit_string_length(provname, MAX_PROVIDER_NAME_LEN),
                                    limit_string_length(probename, MAX_PROBE_NAME_LEN),
                                    funcname, address, flags, a.args)

\* process_rec(providers, rec): status "ok" is Ok(()), "err" an Err(..)
\* returned by `?`, "panic" a Rust panic, "abort" the death of the process.
\* Only an "ok" outcome's providers are observable.
ProcessRec(provs, rec, dlt, ub) ==
    IF Len(rec) < 4 THEN Outcome("panic", provs)
    ELSE IF Len(rec) < 5 THEN Outcome("err", provs)
    ELSE IF IsFutureVersion(rec[5]) THEN Outcome("ok", provs)
    ELSE DecodeRec(provs, Drop(rec, 4), dlt, ub)

\* ---------------------------------------------- record.rs: process_section

\* The record process_section splits off the front of a non-empty slice.
HeadLenPanics(d) == Len(d) < 4 \/ LenExceeds(ReadU32(d), Len(d))

HeadLen(d) == ReadU32(d)[1]

\* One iteration of `while !data.is_empty()`.
ProcessSectionIter ==
    /\ status = "running"
    /\ data # <<>>
    /\ IF HeadLenPanics(data)
       THEN /\ status' = "panic"
            /\ UNCHANGED <<data, providers>>
       ELSE \E ub \in UbOutcomes :
              LET r == ProcessRec(providers, Take(data, HeadLen(data)), dl, ub)
              IN  IF r.status = "ok"
                  THEN /\ providers' = r.providers
                       /\ data' = Drop(data, HeadLen(data))
                       /\ UNCHANGED status
                  ELSE /\ status' = r.status
                       /\ UNCHANGED <<data, providers>>
    /\ UNCHANGED <<input, dl, object, def, stubs>>

\* Loop exit: Ok(Some(Section { providers, .. })).
ProcessSectionReturn ==
    /\ status = "running"
    /\ data = <<>>
    /\ status' = "ok"
    /\ UNCHANGED <<input, data, providers, dl, object, def, stubs>>

\* ------------------------------------------ record.rs: extract_probe_records

StrSetDtraceProbes ==
    <<115, 101, 116, 95, 100, 116, 114, 97, 99, 101, 95, 112, 114, 111, 98, 101, 115>>
StrStartSym ==
    <<95, 95, 115, 116, 97, 114, 116, 95>> \o StrSetDtraceProbes
StrStopSym ==
    <<95, 95, 115, 116, 111, 112, 95>> \o StrSetDtraceProbes
StrDtraceProbes ==
    <<95, 95, 100, 116, 114, 97, 99, 101, 95, 112, 114, 111, 98, 101, 115>>

\* slice::starts_with and str::contains
StartsWith(s, prefix) == Len(s) >= Len(prefix) /\ Take(s, Len(prefix)) = prefix

Contains(s, needle) ==
    \E i \in 0..(Len(s) - Len(needle)) : SubSeq(s, i + 1, i + Len(needle)) = needle

Located(res, bytes) == [res |-> res, data |-> bytes]

\* &data[start..end]: panics unless start <= end <= data.len().
SliceOf(file, start, end) ==
    IF start > end \/ end > Len(file) THEN Located("panic", <<>>)
    ELSE Located("slice", SubSeq(file, start + 1, end))

\* The items the filter_map over the section headers yields: a failed
\* lookup, or a header named set_dtrace_probes.  get is what
\* shdr_strtab.get answers: "none", "err" or "ok" with the name.
ElfSectionHits(obj) ==
    SelectSeq(obj.section_headers,
              LAMBDA h : h.get = "err" \/ (h.get = "ok" /\ h.name = StrSetDtraceProbes))

\* The items the filter_map over the symbols yields.
ElfSymbolHits(obj) ==
    SelectSeq(obj.syms,
              LAMBDA s : s.get = "err"
                            \/ (s.get = "ok" /\ (s.name = StrStartSym \/ s.name = StrStopSym)))

\* The symbol fallback of the Elf arm: the first two items, both Ok.
ElfBounds(obj) ==
    LET bounds == ElfSymbolHits(obj)
    IN  IF Len(bounds) >= 2 /\ bounds[1].get = "ok" /\ bounds[2].get = "ok"
        THEN SliceOf(obj.file, bounds[1].st_value, bounds[2].st_value)
        ELSE Located("none", <<>>)

\* The Object::Elf arm.
LocateElf(obj) ==
    LET hits == ElfSectionHits(obj)
    IN  IF hits # <<>>
        THEN IF hits[1].get = "err" THEN Located("invalid", <<>>)
             ELSE SliceOf(obj.file, hits[1].sh_offset, hits[1].sh_offset + hits[1].sh_size)
        ELSE ElfBounds(obj)

\* The sections of the Mach-O arm's loop that are Ok and whose sectname
\* starts with __dtrace_probes.
MachSectionHits(obj) ==
    SelectSeq(obj.sections, LAMBDA s : s.ok /\ StartsWith(s.sectname, StrDtraceProbes))

\* The symbols that are Ok and whose name contains __dtrace_probes.
MachSymbolHits(obj) ==
    SelectSeq(obj.symbols, LAMBDA y : y.ok /\ Contains(y.name, StrDtraceProbes))

\* The Object::Mach(Binary) arm.
LocateMach(obj) ==
    LET hits == MachSectionHits(obj)
        bounds == MachSymbolHits(obj)
    IN  IF hits # <<>> THEN Located("slice", hits[1].data)
        ELSE IF ~obj.has_symbols THEN Located("none", <<>>)
        ELSE IF Len(bounds) >= 2 THEN SliceOf(obj.file, bounds[1].n_value, bounds[2].n_value)
        ELSE Located("none", <<>>)

\* extract_probe_records up to its call of process_section: "io" is the
\* Err of fs::read, "invalid" Err(InvalidFile), "none" Ok(None).
Locate(obj) ==
    CASE obj.kind = "unreadable" -> Located("io", <<>>)
      [] obj.kind = "elf" -> LocateElf(obj)
      [] obj.kind = "mach" -> LocateMach(obj)
      [] OTHER -> Located("invalid", <<>>)

\* extract_probe_records: the located slice goes to process_section, whose
\* loop the next steps run.
ExtractProbeRecords ==
    /\ status = "extract"
    /\ LET r == Locate(object)
       IN  /\ status' = IF r.res = "slice" THEN "running" ELSE r.res
           /\ data' = r.data
    /\ providers' = EmptyMap
    /\ UNCHANGED <<input, dl, object, def, stubs>>

\* ------------------------------------------------- lib.rs: dtrace_provider

\* The number a string of ASCII digits denotes.
RECURSIVE DigitsValue(_)
DigitsValue(ds) ==
    IF ds = <<>> THEN 0
    ELSE 10 * DigitsValue(SubSeq(ds, 1, Len(ds) - 1)) + (ds[Len(ds)] - 48)

\* str::parse::<u8>() of a digit string is Err when the value exceeds
\* u8::MAX; unwrap then panics.
ParseU8Fails(ds) == ds = <<>> \/ DigitsValue(ds) > 255

\* The decimal digits "{}" formats a number with.
RECURSIVE Decimal(_)
Decimal(n) == IF n < 10 THEN <<48 + n>> ELSE Decimal(n \div 10) \o <<48 + (n % 10)>>

IsIntRule(rule) == rule = "UNSIGNED_INT" \/ rule = "SIGNED_INT"

\* The match on pair.as_rule(): the identifier of the parameter's type.
TypeIdent(arg) ==
    CASE arg.rule = "UNSIGNED_INT" -> <<117>> \o Decimal(DigitsValue(arg.digits))   \* u{}
      [] arg.rule = "SIGNED_INT" -> <<105>> \o Decimal(DigitsValue(arg.digits))     \* i{}
      [] arg.rule = "STRING" -> <<83, 116, 114, 105, 110, 103>>                     \* String
      [] arg.rule = "FLOAT" -> <<102, 51, 50>>                                      \* f32
      [] arg.rule = "DOUBLE" -> <<102, 54, 52>>                                     \* f64

\* The function a probe expands to: arg{i}: {type} for each argument.
Stub(probe) ==
    [name |-> probe.name,
     params |-> [i \in 1..Len(probe.args) |->
                    [arg |-> <<97, 114, 103>> \o Decimal(i - 1), typ |-> TypeIdent(probe.args[i])]]]

\* One iteration of `for pair in provider` on a PROBE pair.
ExpandProbe ==
    /\ status = "expanding"
    /\ Len(stubs) < Len(def.probes)
    /\ LET probe == def.probes[Len(stubs) + 1]
       IN  IF \E i \in 1..Len(probe.args) :
                 IsIntRule(probe.args[i].rule) /\ ParseU8Fails(probe.args[i].digits)
           THEN status' = "panic" /\ UNCHANGED stubs
           ELSE stubs' = Append(stubs, Stub(probe)) /\ UNCHANGED status
    /\ UNCHANGED <<input, data, providers, dl, object, def>>

\* The final quote!: the struct and its impl block are returned.
EmitProvider ==
    /\ status = "expanding"
    /\ Len(stubs) = Len(def.probes)
    /\ status' = "emitted"
    /\ UNCHANGED <<input, data, providers, dl, object, def, stubs>>

\* ------------------------------------------------------ the encoder (tests)

\* write_cstr
WriteCstr(s) == s \o <<0>>

RECURSIVE WriteCstrs(_)
WriteCstrs(ss) == IF ss = <<>> THEN <<>> ELSE WriteCstr(Head(ss)) \o WriteCstrs(Tail(ss))

\* A record as the tests build it: a dummy length, the fields, then the
\* length fixed to the record's size.
EncodeBody(version, flags, address, provname, probename, args) ==
    <<version, Len(args)>> \o LimbBytes(flags) \o WriteU64(address)
        \o WriteCstr(provname) \o WriteCstr(probename) \o WriteCstrs(args)

EncodeRec(version, flags, address, provname, probename, args) ==
    LET body == EncodeBody(version, flags, address, provname, probename, args)
    IN  WriteU32(U32(4 + Len(body))) \o body

\* ------------------------------------------------------------- the inputs

StrProvider == <<112, 114, 111, 118, 105, 100, 101, 114>>   \* "provider"
StrProbe == <<112, 114, 111, 98, 101>>                      \* "probe"
StrOther == <<111, 116, 104, 101, 114>>                     \* "other"
StrProv2 == <<112, 114, 111, 118, 50>>                      \* "prov2"
StrMain == <<109, 97, 105, 110>>                            \* "main"
StrUint8 == <<117, 105, 110, 116, 56, 95, 116>>             \* "uint8_t"

Addr1234 == U64(4660)                 \* 0x1234
Addr12ab == U64(4779)                 \* 0x12ab
Addr1000 == U64(4096)                 \* 0x1000
AddrHigh == <<4660, 0, 1, 0>>         \* 0x1_0000_1234

\* A record's fields, kept beside its bytes.
Rec(version, flags, address, provname, probename, args) ==
    [version |-> version, flags |-> flags, address |-> address,
     provname |-> provname, probename |-> probename, args |-> args,
     bytes |-> EncodeRec(version, flags, address, provname, probename, args)]

\* A record of a future format that is nothing but its length and version.
ShortFuture == [Rec(2, 0, U64(0), <<>>, <<>>, <<>>) EXCEPT !.bytes = <<5, 0, 0, 0, 2>>]

\* The records slices are built from.
GoodRecs ==
    { Rec(1, 0, Addr1234, StrProvider, StrProbe, <<>>),
      Rec(1, 0, Addr12ab, StrProvider, StrProbe, <<>>),
      Rec(1, 1, Addr12ab, StrProvider, StrProbe, <<StrUint8>>),
      Rec(1, 0, Addr1000, StrProvider, StrProbe, <<>>),
      Rec(0, 1, Addr1234, StrProvider, StrOther, <<>>),
      Rec(1, 0, Addr1000, StrProv2, StrProbe, <<StrUint8, StrUint8>>),
      Rec(1, 0, AddrHigh, StrProvider, StrProbe, <<>>),
      Rec(2, 0, Addr1000, StrProvider, StrProbe, <<StrUint8>>),
      ShortFuture }

\* Malformed ends of a slice: fewer than 4 bytes; declared lengths 0, 3, 4,
\* 5 and 8; a declared length past the end of the slice; a header with no
\* strings after it.
BadTails ==
    { <<1, 0, 0>>,
      <<0, 0, 0, 0>>,
      <<3, 0, 0, 0>>,
      <<4, 0, 0, 0>>,
      <<5, 0, 0, 0, 1>>,
      <<5, 0, 0, 0, 2>>,
      <<8, 0, 0, 0, 1, 0, 0, 0>>,
      <<15, 0, 0, 0, 1, 0, 0, 0, 52, 18, 0, 0, 0, 0, 0>>,
      <<40, 0, 0, 0, 1, 0, 0, 0>>,
      <<16, 0, 0, 0, 1, 0, 0, 0, 52, 18, 0, 0, 0, 0, 0, 0>> }

\* What the dynamic loader knows: nothing; or a symbol at 0x1234 and an
\* object without symbol at 0x12ab.
DlTables ==
    { EmptyMap,
      (Addr1234 :> DlSym(StrMain)) @@ (Addr12ab :> DlNoSym) }

RECURSIVE SeqsUpTo(_, _)
SeqsUpTo(S, n) ==
    IF n = 0 THEN {<<>>}
    ELSE LET shorter == SeqsUpTo(S, n - 1)
         IN  shorter \cup {Append(q, x) : q \in {r \in shorter : Len(r) = n - 1}, x \in S}

\* The sequences of at most n distinct elements of S.
DistinctSeqsUpTo(S, n) ==
    {q \in SeqsUpTo(S, n) : \A i \in 1..Len(q), j \in 1..Len(q) : q[i] = q[j] => i = j}

RECURSIVE Concat(_)
Concat(rs) == IF rs = <<>> THEN <<>> ELSE Head(rs).bytes \o Concat(Tail(rs))

\* input is the list of records the slice was built from and its malformed
\* tail; data starts as the slice itself.
NoObject == [kind |-> "none"]

InitSlice(rs, tail) ==
    /\ input = [recs |-> rs, tail |-> tail]
    /\ data = Concat(rs) \o tail
    /\ dl \in DlTables
    /\ providers = EmptyMap
    /\ status = "running"
    /\ object = NoObject
    /\ def = <<>>
    /\ stubs = <<>>

\* process_section on a slice of well-formed records.
Init == \E rs \in SeqsUpTo(GoodRecs, MaxRecs) : InitSlice(rs, <<>>)

\* process_section on a slice with a malformed end.
InitMalformed ==
    \E rs \in SeqsUpTo(GoodRecs, MaxBadRecs), tail \in BadTails : InitSlice(rs, tail)

\* Names and descriptions: short; of limit - 1, limit and 130 bytes; with a
\* two-byte character across byte 63, and across byte 127.
StrP63 == Repeat(112, 63)
StrP64 == Repeat(112, 64)
StrP130 == Repeat(112, 130)
StrSplit63 == Repeat(112, 62) \o <<195, 169>> \o <<112, 112>>
StrSplit127 == Repeat(97, 126) \o <<195, 169>> \o <<97>>

LongNames == {StrProbe, StrP63, StrP64, StrP130, StrSplit63, StrSplit127}

\* The loader knows nothing, or a symbol of 130 bytes at 0x1234.
DlLongTables == {EmptyMap, (Addr1234 :> DlSym(Repeat(102, 130)))}

\* process_section on one supported record with long strings.
InitNames ==
    /\ \E pv \in LongNames, pb \in LongNames, args \in SeqsUpTo(LongNames, MaxNameArgs) :
          /\ input = [recs |-> <<Rec(1, 0, Addr1234, pv, pb, args)>>, tail |-> <<>>]
          /\ data = EncodeRec(1, 0, Addr1234, pv, pb, args)
    /\ dl \in DlLongTables
    /\ providers = EmptyMap
    /\ status = "running"
    /\ object = NoObject
    /\ def = <<>>
    /\ stubs = <<>>

\* The file: four bytes of magic, two records at 4..35 and 35..66, two
\* bytes more.
FileBytes ==
    <<127, 69, 76, 70>>
        \o EncodeRec(1, 0, Addr1234, StrProvider, StrProbe, <<>>)
        \o EncodeRec(1, 0, Addr12ab, StrProvider, StrProbe, <<>>)
        \o <<0, 0>>

StrText == <<46, 116, 101, 120, 116>>          \* ".text"
StrUMain == <<95, 109, 97, 105, 110>>          \* "_main"
StrSectStart ==                                \* "section$start$__DATA$__dtrace_probes"
    <<115, 101, 99, 116, 105, 111, 110, 36, 115, 116, 97, 114, 116, 36, 95, 95, 68, 65, 84, 65, 36>>
        \o StrDtraceProbes
StrSectEnd ==                                  \* "section$end$__DATA$__dtrace_probes"
    <<115, 101, 99, 116, 105, 111, 110, 36, 101, 110, 100, 36, 95, 95, 68, 65, 84, 65, 36>>
        \o StrDtraceProbes
StrMyLen ==                                    \* "_my__dtrace_probes_len"
    <<95, 109, 121>> \o StrDtraceProbes \o <<95, 108, 101, 110>>

ElfHeader(get, name, off, size) == [get |-> get, name |-> name, sh_offset |-> off, sh_size |-> size]

ElfSym(get, name, value) == [get |-> get, name |-> name, st_value |-> value]

ElfHeaders ==
    { ElfHeader("ok", StrSetDtraceProbes, 4, 62),
      ElfHeader("ok", StrText, 0, 4),
      ElfHeader("err", <<>>, 0, 0),
      ElfHeader("none", <<>>, 0, 0) }

ElfSyms ==
    { ElfSym("ok", StrStartSym, 4),
      ElfSym("ok", StrStopSym, 66),
      ElfSym("ok", StrMain, 35),
      ElfSym("err", <<>>, 0),
      ElfSym("none", <<>>, 0) }

MachSection(ok, sectname, bytes) == [ok |-> ok, sectname |-> sectname, data |-> bytes]

MachSym(ok, name, value) == [ok |-> ok, name |-> name, n_value |-> value]

\* sectname is a [u8; 16], zero padded.
MachSections ==
    { MachSection(TRUE, StrDtraceProbes \o <<0>>, SubSeq(FileBytes, 5, 66)),
      MachSection(TRUE, <<95, 95, 116, 101, 120, 116>> \o Repeat(0, 10), Take(FileBytes, 4)),
      MachSection(FALSE, <<>>, <<>>) }

MachSyms ==
    { MachSym(TRUE, StrSectStart, 4),
      MachSym(TRUE, StrSectEnd, 66),
      MachSym(TRUE, StrUMain, 35),
      MachSym(TRUE, StrMyLen, 35),
      MachSym(FALSE, <<>>, 0) }

ElfObjects ==
    { [kind |-> "elf", file |-> FileBytes, section_headers |-> hs, syms |-> ss] :
        hs \in DistinctSeqsUpTo(ElfHeaders, MaxHdrs), ss \in DistinctSeqsUpTo(ElfSyms, MaxSyms) }

MachObjects ==
    { [kind |-> "mach", file |-> FileBytes, sections |-> scs, has_symbols |-> TRUE, symbols |-> ys] :
        scs \in DistinctSeqsUpTo(MachSections, MaxHdrs), ys \in DistinctSeqsUpTo(MachSyms, MaxSyms) }
    \cup
    { [kind |-> "mach", file |-> FileBytes, sections |-> scs, has_symbols |-> FALSE, symbols |-> <<>>] :
        scs \in DistinctSeqsUpTo(MachSections, MaxHdrs) }

\* A file that cannot be read, and bytes that are no ELF or Mach-O binary.
OtherObjects == {[kind |-> "unreadable"], [kind |-> "other"]}

\* extract_probe_records on a file.
InitLocate ==
    /\ object \in ElfObjects \cup MachObjects \cup OtherObjects
    /\ input = [recs |-> <<>>, tail |-> <<>>]
    /\ data = <<>>
    /\ dl = EmptyMap
    /\ providers = EmptyMap
    /\ status = "extract"
    /\ def = <<>>
    /\ stubs = <<>>

\* Argument types the grammar accepts.
ArgType(rule, digits) == [rule |-> rule, digits |-> digits]

ArgTypes ==
    { ArgType("UNSIGNED_INT", <<56>>),            \* uint8_t
      ArgType("UNSIGNED_INT", <<49, 55>>),        \* uint17_t
      ArgType("UNSIGNED_INT", <<51, 48, 48>>),    \* uint300_t
      ArgType("SIGNED_INT", <<54, 52>>),          \* int64_t
      ArgType("STRING", <<>>),
      ArgType("DOUBLE", <<>>) }

ProbeNames == <<"bar", "baz", "qux", "quux">>

\* provider foo { probe bar(..); probe baz(..); };
ProviderDefs ==
    { [name |-> "foo",
       probes |-> [i \in 1..Len(as) |-> [name |-> ProbeNames[i], args |-> as[i]]]] :
        as \in SeqsUpTo(SeqsUpTo(ArgTypes, MaxArgs), MaxProbes) }

\* dtrace_provider on a parsed provider definition.
InitBind ==
    /\ def \in ProviderDefs
    /\ stubs = <<>>
    /\ status = "expanding"
    /\ input = [recs |-> <<>>, tail |-> <<>>]
    /\ data = <<>>
    /\ dl = EmptyMap
    /\ providers = EmptyMap
    /\ object = NoObject

\* Argument descriptions of exactly limit - 1 and of limit bytes.
StrA127 == Repeat(97, 127)
StrA128 == Repeat(97, 128)

\* Records of provider/probe with differing argument lists: one short
\* description; a 130-byte description before a short one; none; descriptions
\* of 127 and 128 bytes; a description with a two-byte character across byte
\* 127; a record of a future format; and a record of another probe.
ArgRecs ==
    { Rec(1, 0, Addr1234, StrProvider, StrProbe, <<StrUint8>>),
      Rec(1, 0, Addr1234, StrProvider, StrProbe, <<StrP130, StrUint8>>),
      Rec(1, 1, Addr12ab, StrProvider, StrProbe, <<>>),
      Rec(1, 0, Addr1234, StrProvider, StrProbe, <<StrA127, StrA128>>),
      Rec(1, 0, Addr1234, StrProvider, StrProbe, <<StrSplit127>>),
      Rec(2, 0, Addr1234, StrProvider, StrProbe, <<StrUint8, StrUint8>>),
      Rec(1, 0, Addr1234, StrProvider, StrOther, <<StrMain>>) }

\* process_section on a slice of records with argument descriptions.
InitArgs == \E rs \in SeqsUpTo(ArgRecs, MaxArgRecs) : InitSlice(rs, <<>>)

Next == ProcessSectionIter \/ ProcessSectionReturn

Spec == Init /\ [][Next]_vars

SpecMalformed == InitMalformed /\ [][Next]_vars

SpecNames == InitNames /\ [][Next]_vars

SpecArgs == InitArgs /\ [][Next]_vars

NextLocate == ExtractProbeRecords \/ ProcessSectionIter \/ ProcessSectionReturn

SpecLocate == InitLocate /\ [][NextLocate]_vars

NextBind == ExpandProbe \/ EmitProvider

SpecBind == InitBind /\ [][NextBind]_vars

\* ============================================================== properties

\* How many records of input.recs the loop has consumed: data is the rest.
Pos ==
    IF data = <<>> THEN Len(input.recs)
    ELSE CHOOSE k \in 0..Len(input.recs) :
            data = Concat(SubSeq(input.recs, k + 1, Len(input.recs))) \o input.tail

\* The records consumed so far, and the one at the front of data.
Processed == SubSeq(input.recs, 1, Pos)

AtRecord == Pos < Len(input.recs)

HeadRec == input.recs[Pos + 1]

IsSupportedRec(r) == r.version <= PROBE_REC_VERSION

KeyOf(r) ==
    <<limit_string_length(r.provname, MAX_PROVIDER_NAME_LEN),
      limit_string_length(r.probename, MAX_PROBE_NAME_LEN)>>

HasProbe(provs, key) == key[1] \in DOMAIN provs /\ key[2] \in DOMAIN provs[key[1]].probes

ProbeAt(provs, key) == provs[key[1]].probes[key[2]]

Keys(provs) == {<<pv, pb>> : pv \in DOMAIN provs, pb \in UNION {DOMAIN provs[q].probes : q \in DOMAIN provs}}

ProbeKeys(provs) == {key \in Keys(provs) : HasProbe(provs, key)}

\* The supported records among rs that belong to one probe.
RecsOf(rs, key) == SelectSeq(rs, LAMBDA r : IsSupportedRec(r) /\ KeyOf(r) = key)

\* Every result process_section can end with on the records rs, started
\* from provs (a failure's providers are not observable).
RECURSIVE RefRun(_, _)
RefRun(provs, rs) ==
    IF rs = <<>> THEN {Outcome("ok", provs)}
    ELSE UNION { IF r.status = "ok" THEN RefRun(r.providers, Tail(rs))
                 ELSE {Outcome(r.status, EmptyMap)} :
                 r \in {ProcessRec(provs, Head(rs).bytes, dl, ub) : ub \in UbOutcomes} }

Result == Outcome(status, IF status = "ok" THEN providers ELSE EmptyMap)

\* C1: a record whose format_version exceeds PROBE_REC_VERSION is skipped:
\* the step that meets it raises no error, leaves the providers map as it
\* was and moves on to the next record; and the call ends as it would on
\* the slice without the unsupported-version records, with the same
\* providers map when it succeeds.
C1_FutureVersionSkipped ==
    /\ [][(status = "running" /\ AtRecord /\ HeadRec.version > PROBE_REC_VERSION)
            => (/\ status' = "running"
                /\ providers' = providers
                /\ data' = Drop(data, Len(HeadRec.bytes)))]_vars
    /\ [](status # "running"
            => Result \in RefRun(EmptyMap, SelectSeq(input.recs, IsSupportedRec)))

\* A future-version record was skipped and a supported record after it was
\* decoded.
C1_Witness ==
    /\ status = "ok"
    /\ \E i \in 1..Len(input.recs), j \in 1..Len(input.recs) :
          /\ i < j
          /\ ~IsSupportedRec(input.recs[i])
          /\ IsSupportedRec(input.recs[j])
          /\ HasProbe(providers, KeyOf(input.recs[j]))

\* The record at the front of data is supported and its address is below
\* the anchor of its probe's entry.
HeadRegresses ==
    /\ AtRecord
    /\ IsSupportedRec(HeadRec)
    /\ HasProbe(providers, KeyOf(HeadRec))
    /\ U64Lt(HeadRec.address, ProbeAt(providers, KeyOf(HeadRec)).address)

\* C2: a supported record whose address is below its probe's anchor makes
\* the decode call end with an error value (never accepted, never a panic
\* or the death of the process).
C2_OrderingIsTypedError == (status # "running" /\ HeadRegresses) => status = "err"

\* The offsets the records rs of one probe give: one per record with the
\* wanted flags, each the low 32 bits of address - anchor.
OffsetsOf(rs, enabled) ==
    LET sel == SelectSeq(rs, LAMBDA r : (r.flags # 0) = enabled)
    IN  [i \in 1..Len(sel) |-> AsU32(U64Sub(sel[i].address, rs[1].address))]

\* C4: every supported record decoded so far has added exactly one entry
\* to its probe, to offsets when flags = 0 and to enabled_offsets otherwise,
\* in slice order, the probe's first record adding 0; 0x1234 then 0x12ab
\* with flags 0 give [0, 0x12ab - 0x1234].
C4_OneOffsetPerRecord ==
    status \in {"running", "ok"} =>
        /\ \A i \in 1..Len(Processed) :
              IsSupportedRec(Processed[i]) => HasProbe(providers, KeyOf(Processed[i]))
        /\ \A key \in ProbeKeys(providers) :
              LET rs == RecsOf(Processed, key)
                  probe == ProbeAt(providers, key)
              IN  /\ rs # <<>>
                  /\ probe.offsets = OffsetsOf(rs, FALSE)
                  /\ probe.enabled_offsets = OffsetsOf(rs, TRUE)
                  /\ Len(probe.offsets) + Len(probe.enabled_offsets) = Len(rs)
                  /\ (IF rs[1].flags = 0 THEN probe.offsets ELSE probe.enabled_offsets)[1] = U32(0)
        /\ (Processed = <<Rec(1, 0, Addr1234, StrProvider, StrProbe, <<>>),
                          Rec(1, 0, Addr12ab, StrProvider, StrProbe, <<>>)>>
              => ProbeAt(providers, <<StrProvider, StrProbe>>).offsets
                    = <<U32(0), U32(4779 - 4660)>>)

\* A slice was decoded in which one probe got regular and is-enabled
\* records.
C4_Witness ==
    /\ status = "ok"
    /\ \E key \in ProbeKeys(providers) :
          /\ Len(ProbeAt(providers, key).offsets) >= 2
          /\ Len(ProbeAt(providers, key).enabled_offsets) >= 1

\* The function names addr_to_info and the truncation can give an address.
FuncNames(address) ==
    { IF info.some THEN limit_string_length(info.s, MAX_FUNC_NAME_LEN) ELSE Placeholder(address) :
        info \in {AddrToInfo(dl, address, ub) : ub \in UbOutcomes} }

\* C10: a probe's name, anchor address and function name are those of the
\* first record decoded for its key; a later record never changes them and
\* never removes or replaces another provider or probe; a single record
\* decodes to a probe with exactly its provider name, probe name and address.
C10_FirstRecordWins ==
    /\ [](status \in {"running", "ok"} =>
            /\ \A pv \in DOMAIN providers : providers[pv].name = pv
            /\ \A key \in ProbeKeys(providers) :
                  LET first == RecsOf(Processed, key)[1]
                      probe == ProbeAt(providers, key)
                  IN  /\ probe.name = key[2]
                      /\ probe.address = first.address
                      /\ probe.function \in FuncNames(first.address)
            /\ \A r \in GoodRecs :
                  (input.recs = <<r>> /\ IsSupportedRec(r) /\ status = "ok") =>
                      /\ DOMAIN providers = {r.provname}
                      /\ DOMAIN providers[r.provname].probes = {r.probename}
                      /\ providers[r.provname].probes[r.probename].name = r.probename
                      /\ providers[r.provname].probes[r.probename].address = r.address)
    /\ [][\A key \in ProbeKeys(providers) :
            /\ HasProbe(providers', key)
            /\ providers'[key[1]].name = providers[key[1]].name
            /\ ProbeAt(providers', key).name = ProbeAt(providers, key).name
            /\ ProbeAt(providers', key).address = ProbeAt(providers, key).address
            /\ ProbeAt(providers', key).function = ProbeAt(providers, key).function]_vars

\* A second record with another address was decoded for a probe that
\* already existed, beside another provider.
C10_Witness ==
    /\ status = "ok"
    /\ Cardinality(DOMAIN providers) >= 2
    /\ \E key \in ProbeKeys(providers) :
          LET rs == RecsOf(input.recs, key)
          IN  Len(rs) >= 2 /\ rs[2].address # rs[1].address

\* The malformed end of the slice is a record too short for its 16-byte
\* header: fewer than 4 bytes, a declared length below 16, or a declared
\* length past the end of the slice.
TailTooShort ==
    /\ input.tail # <<>>
    /\ \/ Len(input.tail) < 4
       \/ ReadU32(input.tail)[2] = 0 /\ ReadU32(input.tail)[1] < 16
       \/ LenExceeds(ReadU32(input.tail), Len(input.tail))

\* C3: when the decoder comes to a record too short for its fixed header,
\* the call ends with an error value: the record is not skipped, no Section
\* is returned, and there is no panic.
C3_TruncatedIsError ==
    (status # "running" /\ TailTooShort /\ Pos = Len(input.recs)) => status = "err"

\* The first min(length, limit - 1) bytes of a string.
Cut(s, limit) == SubSeq(s, 1, Min(Len(s), limit - 1))

\* C5: a supported record with valid UTF-8 strings of any length decodes
\* without error, its provider and probe keyed by the names cut to 63 bytes,
\* its argument descriptions and function name cut to 127, and a longer
\* original name is no key.
C5_TruncationNeverFails ==
    LET r == input.recs[1]
        pv == Cut(r.provname, MAX_PROVIDER_NAME_LEN)
        pb == Cut(r.probename, MAX_PROBE_NAME_LEN)
    IN  (status # "running" /\ Len(input.recs) = 1 /\ IsSupportedRec(r)
            /\ ValidUtf8(r.provname) /\ ValidUtf8(r.probename)
            /\ \A i \in 1..Len(r.args) : ValidUtf8(r.args[i]))
        => /\ status = "ok"
           /\ DOMAIN providers = {pv}
           /\ DOMAIN providers[pv].probes = {pb}
           /\ providers[pv].name = pv
           /\ providers[pv].probes[pb].name = pb
           /\ providers[pv].probes[pb].arguments
                 = [i \in 1..Len(r.args) |-> Cut(r.args[i], MAX_ARG_TYPE_LEN)]
           /\ Len(providers[pv].probes[pb].function) <= MAX_FUNC_NAME_LEN - 1

\* A section header, or a symbol, whose name lookup succeeded with the
\* given name.
ElfNamed(items, name) == SelectSeq(items, LAMBDA x : x.get = "ok" /\ x.name = name)

\* The scan of the section headers stops at a failed lookup.
MetSectionErr == ElfSectionHits(object) # <<>> /\ ElfSectionHits(object)[1].get = "err"

\* No section is found and the scan for the two boundary symbols meets a
\* failed lookup.
MetSymbolErr ==
    /\ ElfSectionHits(object) = <<>>
    /\ \E i \in 1..Min(2, Len(ElfSymbolHits(object))) : ElfSymbolHits(object)[i].get = "err"

\* No lookup the scans of the two tables can make fails.
NoLookupErr ==
    /\ \A i \in 1..Len(object.section_headers) : object.section_headers[i].get # "err"
    /\ \A i \in 1..Len(object.syms) : object.syms[i].get # "err"

BothBoundarySymbols ==
    ElfNamed(object.syms, StrStartSym) # <<>> /\ ElfNamed(object.syms, StrStopSym) # <<>>

\* C6: on an ELF image a failed name lookup met while scanning, of a section
\* header or of a symbol, ends the call with InvalidFile; Ok(None) is the
\* result only when every lookup succeeded and neither the section nor both
\* boundary symbols exist.
C6_LookupFailureIsInvalidFile ==
    (object.kind = "elf" /\ status # "extract") =>
        /\ (MetSectionErr \/ MetSymbolErr) => status = "invalid"
        /\ status = "none" =>
              /\ NoLookupErr
              /\ ElfNamed(object.section_headers, StrSetDtraceProbes) = <<>>
              /\ ~BothBoundarySymbols

\* C7: on an ELF image without a section named set_dtrace_probes, the
\* bytes from the value of __start_set_dtrace_probes to the value of
\* __stop_set_dtrace_probes are decoded whenever both symbols are in the
\* symbol table, in any order and among any other symbols; without both
\* symbols the result is Ok(None); and a section of that name is used when
\* there is one.
C7_BoundarySymbolsDelimit ==
    [][(status = "extract" /\ object.kind = "elf" /\ NoLookupErr) =>
          LET named == ElfNamed(object.section_headers, StrSetDtraceProbes)
              start == ElfNamed(object.syms, StrStartSym)[1].st_value
              stop == ElfNamed(object.syms, StrStopSym)[1].st_value
          IN  IF named # <<>>
              THEN /\ status' = "running"
                   /\ data' = SubSeq(object.file, named[1].sh_offset + 1,
                                     named[1].sh_offset + named[1].sh_size)
              ELSE IF BothBoundarySymbols
              THEN /\ status' = "running"
                   /\ data' = SubSeq(object.file, start + 1, stop)
              ELSE status' = "none"]_vars

\* C8: on a Mach-O binary without a section whose name begins with
\* __dtrace_probes, the symbols give a slice only when exactly two of them
\* have a name containing __dtrace_probes, and then between their two
\* values (stated for the two in ascending order); with any other number
\* of such symbols the result is Ok(None).
C8_ExactlyTwoSymbols ==
    [][(status = "extract" /\ object.kind = "mach" /\ MachSectionHits(object) = <<>>) =>
          LET bounds == MachSymbolHits(object)
          IN  IF Len(bounds) = 2
              THEN bounds[1].n_value <= bounds[2].n_value =>
                      /\ status' = "running"
                      /\ data' = SubSeq(object.file, bounds[1].n_value + 1, bounds[2].n_value)
              ELSE status' = "none"]_vars

\* The widths the target language has integer types for.
NativeWidths == {8, 16, 32, 64}

\* Some uintN_t or intN_t argument of the definition has a width that is
\* not native.
HasNonNativeWidth ==
    \E i \in 1..Len(def.probes) : \E j \in 1..Len(def.probes[i].args) :
        /\ IsIntRule(def.probes[i].args[j].rule)
        /\ DigitsValue(def.probes[i].args[j].digits) \notin NativeWidths

\* C9: a definition with an integer argument of a non-native width makes
\* binding generation end with a ConfigurationError: no stubs are emitted
\* and the digits' parse does not panic.
C9_NonNativeWidthRejected ==
    (HasNonNativeWidth /\ status # "expanding") => status = "config_error"

\* The arguments list a record leaves in its probe: its descriptions in
\* order, each cut to MAX_ARG_TYPE_LEN - 1 bytes.
ArgsOf(r) == [i \in 1..Len(r.args) |-> Cut(r.args[i], MAX_ARG_TYPE_LEN)]

\* Every description of the record can be cut where the limit falls.
ArgsCuttable(r) ==
    \A i \in 1..Len(r.args) :
        IsCharBoundary(r.args[i], Min(Len(r.args[i]), MAX_ARG_TYPE_LEN - 1))

\* C11: after any sequence of records each probe's arguments list is that
\* of the last supported record decoded for its key: argument_count
\* entries, in the record's order, each cut to 127 bytes; a step on a
\* record of a future format or of another probe leaves the list as it
\* was; and a record whose list differs from the probe's is never turned
\* down: no call ends with an error value, and one that stops does so at a
\* record below its probe's anchor, at a description that cannot be cut, or
\* at an address whose symbol name is a null pointer.
C11_ArgumentsLastWriteWins ==
    /\ [](status \in {"running", "ok"} =>
            \A key \in ProbeKeys(providers) :
                LET rs == RecsOf(Processed, key)
                    arguments == ProbeAt(providers, key).arguments
                IN  /\ rs # <<>>
                    /\ arguments = ArgsOf(rs[Len(rs)])
                    /\ Len(arguments) = Len(rs[Len(rs)].args)
                    /\ \A i \in 1..Len(arguments) : Len(arguments[i]) <= MAX_ARG_TYPE_LEN - 1)
    /\ [](/\ status # "err"
          /\ status = "panic" => (AtRecord /\ (HeadRegresses \/ ~ArgsCuttable(HeadRec)))
          /\ status = "abort" => (AtRecord /\ DlAddr(dl, HeadRec.address).null))
    /\ [][(status = "running" /\ AtRecord) =>
            \A key \in ProbeKeys(providers) :
                (~IsSupportedRec(HeadRec) \/ KeyOf(HeadRec) # key) =>
                    /\ HasProbe(providers', key)
                    /\ ProbeAt(providers', key).arguments = ProbeAt(providers, key).arguments]_vars

\* A slice was decoded in which a probe's last supported record carries
\* another list than its first, with a description longer than 127 bytes,
\* and is followed by a record of a future format.
C11_Witness ==
    /\ status = "ok"
    /\ input.recs # <<>>
    /\ ~IsSupportedRec(input.recs[Len(input.recs)])
    /\ \E key \in ProbeKeys(providers) :
          LET rs == RecsOf(input.recs, key)
              last == rs[Len(rs)]
          IN  /\ Len(rs) >= 2
              /\ ArgsOf(rs[1]) # ArgsOf(last)
              /\ \E i \in 1..Len(last.args) : Len(last.args[i]) > MAX_ARG_TYPE_LEN - 1
              /\ ProbeAt(providers, key).arguments = ArgsOf(last)

\* The 64-bit number a stored u32 entry denotes.
Widen(off) == <<off[1], off[2], 0, 0>>

\* The records among rs that push to the same list as a record with the
\* given flags.
SameList(rs, flags) == SelectSeq(rs, LAMBDA r : (r.flags = 0) = (flags = 0))

\* The list of a probe a record with the given flags pushes to.
ListOf(probe, flags) == IF flags = 0 THEN probe.offsets ELSE probe.enabled_offsets

\* The entry the i-th record of rs, the records of one probe, has added.
EntryOf(probe, rs, i) ==
    ListOf(probe, rs[i].flags)[Len(SameList(SubSeq(rs, 1, i), rs[i].flags))]

\* C12: the entry a decoded record adds to offsets or enabled_offsets is
\* numerically address - anchor, also when that difference is 2^32 or more:
\* no entry is a difference reduced modulo 2^32, and two records of one
\* probe with different addresses have different entries.
C12_OffsetsAreExact ==
    status \in {"running", "ok"} =>
        \A key \in ProbeKeys(providers) :
            LET rs == RecsOf(Processed, key)
                probe == ProbeAt(providers, key)
            IN  /\ Len(probe.offsets) = Len(SameList(rs, 0))
                /\ Len(probe.enabled_offsets) = Len(SameList(rs, 1))
                /\ \A i \in 1..Len(rs) :
                      /\ U64Ge(rs[i].address, probe.address)
                      /\ Widen(EntryOf(probe, rs, i)) = U64Sub(rs[i].address, probe.address)
                /\ \A i \in 1..Len(rs), j \in 1..Len(rs) :
                      rs[i].address # rs[j].address
                          => EntryOf(probe, rs, i) # EntryOf(probe, rs, j)

====
